---- MODULE Spec2Model ----
(***************************************************************************)
(* Model of matplot2tikz/_patch.py: the translation of matplotlib patches  *)
(* and patch collections into PGFPlots drawing commands.                   *)
(*                                                                         *)
(* One conversion run is a sequence of draw_patch / draw_patchcollection   *)
(* calls sharing the run context `data`; data["rectangle_legends"] is the  *)
(* only part of the context this file writes.  The collaborators that are  *)
(* not in this file (mypath.get_draw_options, mypath.draw_path,            *)
(* _get_arrow_style, the matplotlib objects) are inputs: what they return  *)
(* is chosen nondeterministically from small sets, and every call made to  *)
(* them is logged so that properties can speak about it.                   *)
(*                                                                         *)
(* Text is modelled as text: option lists are joined and the \draw,        *)
(* \addlegendimage and \addlegendentry strings are built as the code       *)
(* builds them.  A returned string is kept as the sequence of the          *)
(* fragments that were concatenated to make it, each tagged with what it   *)
(* is, so that "a legend pair was emitted" is a question about a tag and   *)
(* "what does it say" a question about the text.                           *)
(***************************************************************************)
EXTENDS Integers, Sequences, FiniteSets, TLC

(* Bounds of the model *)

\* calls of draw_patch / draw_patchcollection in one run
MaxCalls == 2

\* longest paths array of a collection
MaxPaths == 5

\* longest edge-color / face-color / line-style / line-width array
MaxStyles == 2

\* longest transforms array and longest offsets array
MaxPlacements == 2

(* Values *)

\* Python's None, as an array element or an argument
None == <<>>

\* the labels a shape can carry: the empty string (matplotlib's axis
\* decoration), the placeholder, and two labels given by the user
RealLabels == {"A", "B"}
Labels == {"", "_nolegend_"} \cup RealLabels

\* obj.axes.get_legend(): None, or a legend with its texts
NoLegend == [exists |-> FALSE, texts |-> {}]
Legends == {NoLegend, [exists |-> TRUE, texts |-> {"A"}]}

\* what mypath.get_draw_options can return: an ordered list of directives
OptionLists == {<<>>, <<"draw=red", "fill=blue">>}

\* what _get_arrow_style can return
ArrowStyles == {<<>>, <<"->">>}

\* obj.axes.get_legend_handles_labels(): (handle, label) pairs; `has` says
\* whether the rectangle is among the handle's children.  matplotlib lists
\* only non-empty labels that do not start with an underscore.
Handle(l, h) == [label |-> l, has |-> h]
HandleLists ==
    { <<>>,
      <<Handle("A", TRUE)>>,
      <<Handle("A", TRUE), Handle("B", TRUE)>>,
      <<Handle("A", FALSE), Handle("B", TRUE)>> }

\* rotation angles of an ellipse, in degrees
Angles == {0, 30, -45}

(* Text *)

RECURSIVE Join(_, _)
\* sep.join(s)
Join(sep, s) ==
    IF s = <<>> THEN ""
    ELSE IF Len(s) = 1 THEN s[1]
    ELSE s[1] \o sep \o Join(sep, Tail(s))

Digit(d) ==
    CASE d = 0 -> "0" [] d = 1 -> "1" [] d = 2 -> "2" [] d = 3 -> "3"
      [] d = 4 -> "4" [] d = 5 -> "5" [] d = 6 -> "6" [] d = 7 -> "7"
      [] d = 8 -> "8" [] d = 9 -> "9"

RECURSIVE NatText(_)
NatText(n) == IF n < 10 THEN Digit(n) ELSE NatText(n \div 10) \o Digit(n % 10)

\* f"{v:{ff}}" for a whole-valued v under a general format such as ".8g"
Fmt(v) == IF v < 0 THEN "-" \o NatText(-v) ELSE NatText(v)

\* a fragment of returned text: what it is, what it says, the label of a
\* legend pair, and for the path emitter's output the call that made it
Fragment(k, t, l, c) == [kind |-> k, text |-> t, label |-> l, call |-> c]

(* Shapes *)

\* position and size: the lower left corner of a rectangle, the center of
\* an ellipse or circle; w and h are the full width and height
Geometries == { [x |-> -1, y |-> 3, w |-> 4, h |-> 2] }

\* FancyArrowPatch._posA_posB: None, or the two end points
EndPoints == <<<<0, 0>>, <<1, 2>>>>

\* A patch with everything the code reads from it and from its axes.  The
\* answers of the collaborators for this patch travel with it: `resolved`
\* is what mypath.get_draw_options returns for it, `arrow_style` what
\* _get_arrow_style returns, `is_area` the verdict of mypath.draw_path.
BasePatch ==
    [kind |-> "Patch", label |-> "", legend |-> NoLegend, resolved |-> <<>>,
     handles |-> <<>>, geometry |-> [x |-> 0, y |-> 0, w |-> 2, h |-> 4],
     angle |-> 0, posA_posB |-> None, arrow_style |-> <<>>, is_area |-> FALSE]

Rectangles ==
    { [BasePatch EXCEPT !.kind = "Rectangle", !.label = l, !.legend = leg,
                        !.resolved = r, !.handles = hs, !.geometry = g] :
        l \in Labels, leg \in Legends, r \in OptionLists, hs \in HandleLists,
        g \in Geometries }

Ellipses ==
    { [BasePatch EXCEPT !.kind = "Ellipse", !.label = l, !.legend = leg,
                        !.resolved = r, !.angle = a, !.geometry = g] :
        l \in Labels, leg \in Legends, r \in OptionLists, a \in Angles,
        g \in Geometries }

Circles ==
    { [BasePatch EXCEPT !.kind = "Circle", !.label = l, !.legend = leg,
                        !.resolved = r, !.geometry = g] :
        l \in Labels, leg \in Legends, r \in OptionLists, g \in Geometries }

Polygons ==
    { [BasePatch EXCEPT !.kind = "Polygon", !.label = l, !.legend = leg,
                        !.resolved = r, !.is_area = ia] :
        l \in Labels, leg \in Legends, r \in OptionLists, ia \in BOOLEAN }

FancyArrowPatches ==
    { [BasePatch EXCEPT !.kind = "FancyArrowPatch", !.label = l, !.legend = leg,
                        !.resolved = r, !.posA_posB = ab, !.arrow_style = st] :
        l \in Labels, leg \in Legends, r \in OptionLists,
        ab \in {None, EndPoints}, st \in ArrowStyles }

Patches == Rectangles \cup Ellipses \cup Circles \cup Polygons \cup FancyArrowPatches

\* obj.get_path() and obj._path_original
get_path(obj) == <<"path", obj.kind>>
path_original(obj) == <<"_path_original", obj.kind>>

\* the path argument of a mypath.draw_path call: the path, and the affine
\* transform and translation composed onto it (None: the path as it is)
PathArg(path, affine, translate) ==
    [path |-> path, affine |-> affine, translate |-> translate]

\* one logged mypath.draw_path call, with the verdict it returned
EmitterCall(path, draw_options, is_area) ==
    [path |-> path, draw_options |-> draw_options, is_area |-> is_area]

\* one logged _patch_legend call
BinderCall(legend_type, draw_options) ==
    [legend_type |-> legend_type, draw_options |-> draw_options]

\* what a _draw_* function hands back: the returned text, the rectangle
\* legend set as it leaves it, and the calls it made
Outcome(content, seen, emitter, binder) ==
    [content |-> content, rectangle_legends |-> seen,
     emitter_calls |-> emitter, binder_calls |-> binder]

(* Legend Binder *)

\* a membership test that forgets to look at the legend's texts
is_in_legend_unmatched(label, leg) == leg.exists

_is_in_legend(label, leg) ==
    IF ~leg.exists THEN FALSE ELSE label \in leg.texts

\* the option text inside \addlegendimage{...}
legend_image_options(draw_options, legend_type) ==
    IF draw_options # <<>> THEN Join(", ", <<legend_type>> \o draw_options) ELSE ""

\* the returned string, as no fragment ("") or one legend fragment
_patch_legend(obj, draw_options, legend_type) ==
    IF _is_in_legend(obj.label, obj.legend)
    THEN LET do == legend_image_options(draw_options, legend_type)
         IN  << Fragment("legend",
                         "\\addlegendimage{" \o do \o "}\n\\addlegendentry{"
                             \o obj.label \o "}\n\n",
                         obj.label, 0) >>
    ELSE <<>>

(* Shape emitters *)

_draw_polygon(seen, obj, draw_options) ==
    LET legend_type == IF obj.is_area THEN "area legend" ELSE "line legend"
    IN  Outcome(<<Fragment("path", "", "", 1)>>
                    \o _patch_legend(obj, draw_options, legend_type),
                seen,
                <<EmitterCall(PathArg(get_path(obj), None, None), draw_options, obj.is_area)>>,
                <<BinderCall(legend_type, draw_options)>>)

\* an early return that tests for the placeholder instead of the empty label
rectangle_is_skipped_on_placeholder(label) == label = "_nolegend_"

\* the early return of _draw_rectangle
rectangle_is_skipped(label) == label = ""

RECURSIVE labels_found(_)
\* [label for h, label in zip(handles, labels) if obj in h.get_children()]
labels_found(handles) ==
    IF handles = <<>> THEN <<>>
    ELSE (IF Head(handles).has THEN <<Head(handles).label>> ELSE <<>>)
             \o labels_found(Tail(handles))

\* the label after the look-up in the axes' legend handles
recovered_label(obj) ==
    LET found == labels_found(obj.handles)
    IN  IF Len(found) = 1 THEN found[1] ELSE obj.label

\* a legend condition without the look-up in the set
rectangle_needs_legend_unseen(label, seen) == label # "_nolegend_"

\* the condition under which a rectangle emits its legend pair
rectangle_needs_legend(label, seen) ==
    label # "_nolegend_" /\ label \notin seen

\* a rectangle emitter that does not record the label
forget_label(seen, label) == seen

\* data["rectangle_legends"].add(label)
remember_label(seen, label) == seen \cup {label}

_draw_rectangle(seen, obj, draw_options) ==
    IF rectangle_is_skipped(obj.label)
    THEN Outcome(<<>>, seen, <<>>, <<>>)
    ELSE
    LET label == recovered_label(obj)
        g == obj.geometry
        do == Join(",", draw_options)
        cont == Fragment("draw",
                    "\\draw[" \o do \o "] (axis cs:" \o Fmt(g.x) \o "," \o Fmt(g.y)
                        \o ") rectangle (axis cs:" \o Fmt(g.x + g.w) \o ","
                        \o Fmt(g.y + g.h) \o ");\n",
                    "", 0)
    IN  IF rectangle_needs_legend(label, seen)
        THEN Outcome(<<cont,
                       Fragment("legend",
                           "\\addlegendimage{ybar,ybar legend," \o do \o "}\n"
                               \o "\\addlegendentry{" \o label \o "}\n\n",
                           label, 0)>>,
                     remember_label(seen, label), <<>>, <<>>)
        ELSE Outcome(<<cont>>, seen, <<>>, <<>>)

_draw_circle(seen, obj, draw_options) ==
    LET g == obj.geometry
        do == Join(",", draw_options)
    IN  Outcome(<<Fragment("draw",
                      "\\draw[" \o do \o "] (axis cs:" \o Fmt(g.x) \o "," \o Fmt(g.y)
                          \o ") circle (" \o Fmt(g.w \div 2) \o ");\n",
                      "", 0)>>
                    \o _patch_legend(obj, draw_options, "area legend"),
                seen, <<>>, <<BinderCall("area legend", draw_options)>>)

\* the rotation directive of an ellipse
rotate_around(angle, x, y) ==
    "rotate around={" \o Fmt(angle) \o ":(axis cs:" \o Fmt(x) \o "," \o Fmt(y) \o ")}"

\* a rotation step without the test of the angle
ellipse_options_unconditional(draw_options, angle, x, y) ==
    Append(draw_options, rotate_around(angle, x, y))

\* draw_options as the ellipse emitter uses it, after its rotation step
ellipse_options(draw_options, angle, x, y) ==
    IF angle # 0 THEN Append(draw_options, rotate_around(angle, x, y))
    ELSE draw_options

_draw_ellipse(seen, obj, draw_options) ==
    IF obj.kind = "Circle" THEN _draw_circle(seen, obj, draw_options)
    ELSE
    LET g == obj.geometry
        options == ellipse_options(draw_options, obj.angle, g.x, g.y)
        do == Join(",", options)
    IN  Outcome(<<Fragment("draw",
                      "\\draw[" \o do \o "] (axis cs:" \o Fmt(g.x) \o "," \o Fmt(g.y)
                          \o ") ellipse (" \o Fmt(g.w \div 2) \o " and "
                          \o Fmt(g.h \div 2) \o ");\n",
                      "", 0)>>
                    \o _patch_legend(obj, options, "area legend"),
                seen, <<>>, <<BinderCall("area legend", options)>>)

\* an arrow emitter that ignores the end points
arrow_ignores_endpoints(obj) == FALSE

\* whether the arrow is drawn from its two end points
arrow_has_endpoints(obj) == obj.posA_posB # None

_draw_fancy_arrow(seen, obj, draw_options) ==
    LET style == obj.arrow_style
        legend == _patch_legend(obj, draw_options, "line legend")
        binder == <<BinderCall("line legend", draw_options)>>
    IN  IF arrow_has_endpoints(obj)
        THEN LET pos_a == obj.posA_posB[1]
                 pos_b == obj.posA_posB[2]
                 do == Join(",", style)
             IN  Outcome(<<Fragment("draw",
                               "\\draw[" \o do \o "] (axis cs:" \o Fmt(pos_a[1]) \o ","
                                   \o Fmt(pos_a[2]) \o ") -- (axis cs:" \o Fmt(pos_b[1])
                                   \o "," \o Fmt(pos_b[2]) \o ");\n",
                               "", 0)>> \o legend,
                         seen, <<>>, binder)
        ELSE Outcome(<<Fragment("path", "", "", 1)>> \o legend,
                     seen,
                     <<EmitterCall(PathArg(path_original(obj), None, None),
                                   draw_options \o style, obj.is_area)>>,
                     binder)

(* Shape Dispatcher *)

\* mypath.LineData as draw_patch fills it
patch_line_data(obj) ==
    [ec |-> <<"edgecolor">>,
     fc |-> IF obj.kind = "FancyArrowPatch" THEN None ELSE <<"facecolor">>,
     ls |-> <<"linestyle">>, lw |-> <<"linewidth">>, hatch |-> <<"hatch">>]

\* draw_patch without its effect on the state
draw_patch_outcome(seen, obj) ==
    LET draw_options == obj.resolved
    IN  IF obj.kind = "FancyArrowPatch" THEN _draw_fancy_arrow(seen, obj, draw_options)
        ELSE IF obj.kind = "Rectangle" THEN _draw_rectangle(seen, obj, draw_options)
        ELSE IF obj.kind \in {"Ellipse", "Circle"} THEN _draw_ellipse(seen, obj, draw_options)
        ELSE _draw_polygon(seen, obj, draw_options)

(* Collection Batcher *)

\* an attribute array of a collection with n elements, every element
\* telling its own index
Array(name, n) == [j \in 1..n |-> <<name, j>>]

\* a collection of the given array lengths; `verdict_last` and
\* `verdict_other` are the is_area verdicts mypath.draw_path returns in the
\* last and in every earlier iteration, `effective` the draw options it
\* returns in the last one, `rejects_none` whether it raises on a None path
Collection(l, leg, np, nec, nfc, nls, nw, nt, noff, vl, vo, eff, rej) ==
    [kind |-> "Collection", label |-> l, legend |-> leg,
     paths |-> Array("path", np), edgecolor |-> Array("ec", nec),
     facecolor |-> Array("fc", nfc), linestyle |-> Array("ls", nls),
     linewidth |-> Array("lw", nw), transforms |-> Array("t", nt),
     offsets |-> Array("off", noff),
     verdict_last |-> vl, verdict_other |-> vo, effective |-> eff,
     rejects_none |-> rej]

Max(S) == CHOOSE m \in S : \A k \in S : k <= m

\* max(len(seq) for seq in seqs)
zip_length(seqs) == Max({Len(seqs[k]) : k \in 1..Len(seqs)})

\* a pairing that repeats the last element instead of wrapping around
zip_element_clamped(seq, i) ==
    IF Len(seq) # 0 THEN seq[IF i > Len(seq) THEN Len(seq) ELSE i] ELSE None

\* seq[i % len(seq)] if len(seq) != 0 else None, for the i-th tuple
zip_element(seq, i) ==
    IF Len(seq) # 0 THEN seq[((i - 1) % Len(seq)) + 1] ELSE None

zip_modulo(seqs) ==
    [i \in 1..zip_length(seqs) |->
        [k \in 1..Len(seqs) |-> zip_element(seqs[k], i)]]

ensure_list(x) == IF Len(x) = 0 THEN <<None>> ELSE x

\* the arrays draw_patchcollection zips, in the order it zips them
collection_arrays(c) ==
    << c.paths, ensure_list(c.edgecolor), ensure_list(c.facecolor),
       ensure_list(c.linestyle), ensure_list(c.linewidth),
       ensure_list(c.transforms), c.offsets >>

\* mypath.LineData as the loop fills it from one tuple
member_line_data(tu) == [ec |-> tu[2], fc |-> tu[3], ls |-> tu[4], lw |-> tu[5]]

\* a path argument that is translated whether or not a transform is there
member_path_always_placed(path, t, off) == PathArg(path, t, off)

\* the path argument of the loop's mypath.draw_path call
member_path(path, t, off) ==
    IF t # None THEN PathArg(path, t, off) ELSE PathArg(path, None, None)

\* evaluating that argument raises: None has no `transformed`, and a None
\* offset cannot be unpacked
member_path_raises(path, t, off) == t # None /\ (path = None \/ off = None)

RECURSIVE run_members(_, _, _)
\* the loop from its i-th iteration on
run_members(c, tuples, i) ==
    IF i > Len(tuples)
    THEN [style |-> <<>>, emitter |-> <<>>, content |-> <<>>, raised |-> FALSE]
    ELSE
    LET tu == tuples[i]
        style == member_line_data(tu)
        draw_options == <<"draw_options", i>>
        is_area == IF i = Len(tuples) THEN c.verdict_last ELSE c.verdict_other
        call == EmitterCall(member_path(tu[1], tu[6], tu[7]), draw_options, is_area)
    IN  IF member_path_raises(tu[1], tu[6], tu[7])
        THEN [style |-> <<style>>, emitter |-> <<>>, content |-> <<>>, raised |-> TRUE]
        ELSE IF tu[1] = None /\ c.rejects_none
        THEN [style |-> <<style>>, emitter |-> <<call>>, content |-> <<>>,
              raised |-> TRUE]
        ELSE LET rest == run_members(c, tuples, i + 1)
             IN  [style |-> <<style>> \o rest.style,
                  emitter |-> <<call>> \o rest.emitter,
                  content |-> <<Fragment("path", "", "", i)>> \o rest.content,
                  raised |-> rest.raised]

\* a legend type taken from the first iteration
collection_legend_type_of_first(verdicts) ==
    IF verdicts[1] THEN "area legend" ELSE "line legend"

\* the legend type of a collection, from the verdicts of its iterations
collection_legend_type(verdicts) ==
    IF verdicts[Len(verdicts)] THEN "area legend" ELSE "line legend"

\* _patch_legend(...) or "\n"
collection_legend(c, draw_options, legend_type) ==
    LET legend == _patch_legend(c, draw_options, legend_type)
    IN  IF legend = <<>> THEN <<Fragment("blank", "\n", "", 0)>> ELSE legend

\* draw_patchcollection without its effect on the state
draw_patchcollection_outcome(c) ==
    LET loop == run_members(c, zip_modulo(collection_arrays(c)), 1)
        verdicts == [i \in 1..Len(loop.emitter) |-> loop.emitter[i].is_area]
        legend_type == collection_legend_type(verdicts)
    IN  IF loop.raised
        THEN [content |-> <<>>, style_calls |-> loop.style,
              emitter_calls |-> loop.emitter, binder_calls |-> <<>>, raised |-> TRUE]
        ELSE [content |-> loop.content
                              \o collection_legend(c, c.effective, legend_type),
              style_calls |-> loop.style, emitter_calls |-> loop.emitter,
              binder_calls |-> <<BinderCall(legend_type, c.effective)>>,
              raised |-> FALSE]

(* State *)

VARIABLES
    rectangle_legends,  \* data["rectangle_legends"]
    legends_before,     \* data["rectangle_legends"] as the last call found it
    legend_log,         \* every legend pair emitted so far in the run, in order
    obj,                \* the shape or collection of the last call
    content,            \* what the last call returned
    style_calls,        \* the LineData of its mypath.get_draw_options calls
    emitter_calls,      \* its mypath.draw_path calls
    binder_calls,       \* its _patch_legend calls
    raised,             \* whether it raised instead of returning
    ncalls              \* calls made in this run

vars == <<rectangle_legends, legends_before, legend_log, obj, content, style_calls,
          emitter_calls, binder_calls, raised, ncalls>>

RECURSIVE legend_entries(_, _)
\* the legend pairs in returned text, as log entries
legend_entries(fragments, kind) ==
    IF fragments = <<>> THEN <<>>
    ELSE (IF Head(fragments).kind = "legend"
          THEN <<[label |-> Head(fragments).label, shape |-> kind]>>
          ELSE <<>>) \o legend_entries(Tail(fragments), kind)

Init ==
    /\ rectangle_legends = {}
    /\ legends_before = {}
    /\ legend_log = <<>>
    /\ obj = [kind |-> "none"]
    /\ content = <<>>
    /\ style_calls = <<>>
    /\ emitter_calls = <<>>
    /\ binder_calls = <<>>
    /\ raised = FALSE
    /\ ncalls = 0

draw_patch(o) ==
    /\ ncalls < MaxCalls
    /\ \E out \in {draw_patch_outcome(rectangle_legends, o)} :
        /\ ncalls' = ncalls + 1
        /\ obj' = o
        /\ style_calls' = <<patch_line_data(o)>>
        /\ content' = out.content
        /\ legends_before' = rectangle_legends
        /\ rectangle_legends' = out.rectangle_legends
        /\ emitter_calls' = out.emitter_calls
        /\ binder_calls' = out.binder_calls
        /\ raised' = FALSE
        /\ legend_log' = legend_log \o legend_entries(out.content, o.kind)

draw_patchcollection(c) ==
    /\ ncalls < MaxCalls
    /\ \E out \in {draw_patchcollection_outcome(c)} :
        /\ ncalls' = ncalls + 1
        /\ obj' = c
        /\ style_calls' = out.style_calls
        /\ content' = out.content
        /\ emitter_calls' = out.emitter_calls
        /\ binder_calls' = out.binder_calls
        /\ raised' = out.raised
        /\ legend_log' = legend_log \o legend_entries(out.content, c.kind)
        /\ legends_before' = rectangle_legends
        /\ UNCHANGED rectangle_legends

\* the collections of a whole run: one or two paths, one transform or none
RunCollections ==
    { Collection(l, leg, np, 1, 1, 1, 1, nt, 1, vl, ~vl, eff, FALSE) :
        l \in Labels, leg \in Legends, np \in 1..2, nt \in 0..1,
        vl \in BOOLEAN, eff \in OptionLists }

\* the collections of every combination of array lengths with np paths;
\* what the path emitter does with a None path matters only without paths
CollectionsOf(np) ==
    { Collection("A", leg, np, nec, nfc, nls, nw, nt, noff, vl, vo, eff, rej) :
        leg \in Legends, nec \in 0..MaxStyles,
        nfc \in 0..MaxStyles, nls \in 0..MaxStyles, nw \in 0..MaxStyles,
        nt \in 0..MaxPlacements, noff \in 0..MaxPlacements,
        vl \in BOOLEAN, vo \in BOOLEAN, eff \in OptionLists,
        rej \in IF np = 0 THEN BOOLEAN ELSE {FALSE} }

DrawPatch == \E o \in Patches : draw_patch(o)

DrawPatchCollection == \E c \in RunCollections : draw_patchcollection(c)

\* a conversion run: patches and collections in any order
Next == DrawPatch \/ DrawPatchCollection

Spec == Init /\ [][Next]_vars

\* one collection with paths, of any array lengths, converted in a fresh run
DrawAnyPatchCollection ==
    /\ ncalls = 0
    /\ \E np \in 1..MaxPaths : \E c \in CollectionsOf(np) : draw_patchcollection(c)

\* one collection without paths, of any array lengths, converted in a fresh run
DrawEmptyPatchCollection ==
    /\ ncalls = 0
    /\ \E c \in CollectionsOf(0) : draw_patchcollection(c)

NextCollection == DrawAnyPatchCollection \/ DrawEmptyPatchCollection

SpecCollection == Init /\ [][NextCollection]_vars

(* Properties *)

\* how many legend pairs a returned text holds
LegendCount(fragments) ==
    Cardinality({i \in DOMAIN fragments : fragments[i].kind = "legend"})

\* the shape's label is among the texts of its axes' legend
InLegend(o) == o.legend.exists /\ o.label \in o.legend.texts

\* the shapes that reach the Legend Binder
BoundKinds == {"Ellipse", "Circle", "Polygon", "FancyArrowPatch", "Collection"}

\* the label a rectangle ends up with: its own when the emitter returns early
RectangleLabel(o) == IF o.label = "" THEN o.label ELSE recovered_label(o)

\* the rectangle drawing and nothing else
OnlyDrawing(fragments) == Len(fragments) = 1 /\ fragments[1].kind = "draw"

\* the rectangle drawing followed by one legend pair for label l
DrawingAndPair(fragments, l) ==
    /\ Len(fragments) = 2
    /\ fragments[1].kind = "draw"
    /\ fragments[2].kind = "legend"
    /\ fragments[2].label = l

\* element i of an array under wrap-around pairing, None for an empty array
Wrapped(seq, i) == IF Len(seq) = 0 THEN None ELSE seq[((i - 1) % Len(seq)) + 1]

\* the length of an array that an empty array is replaced by [None] for
AtLeastOne(seq) == IF Len(seq) = 0 THEN 1 ELSE Len(seq)

\* C1 (as stated): in one run no label is emitted as a legend entry more
\* than once, whatever the shapes that emitted it.
C1_NoDuplicateLabels ==
    \A i, j \in DOMAIN legend_log :
        i # j => legend_log[i].label # legend_log[j].label

\* C1 (amended): in one run no label is emitted more than once as a legend
\* entry by rectangles; the set data["rectangle_legends"] holds exactly the
\* labels rectangles have emitted.
C1_RectangleLabelsUnique ==
    /\ \A i, j \in DOMAIN legend_log :
           (i # j /\ legend_log[i].shape = "Rectangle"
                  /\ legend_log[j].shape = "Rectangle")
               => legend_log[i].label # legend_log[j].label
    /\ rectangle_legends =
           {legend_log[i].label :
               i \in {k \in DOMAIN legend_log : legend_log[k].shape = "Rectangle"}}

\* C1 witness: a second rectangle with a label a rectangle has already
\* emitted was drawn, and emitted no second entry.
C1_Witness ==
    /\ ncalls = 2
    /\ obj.kind = "Rectangle"
    /\ obj.label # ""
    /\ recovered_label(obj) \in legends_before
    /\ Len(legend_log) = 1
    /\ legend_log[1] = [label |-> recovered_label(obj), shape |-> "Rectangle"]

\* C2 (as stated): a rectangle whose (possibly recovered) label is not the
\* placeholder and not yet in the set emits its drawing and exactly one
\* legend pair and adds the label to the set; a rectangle whose label is
\* already in the set emits its drawing and no pair.
C2_RectangleLegendOnce ==
    obj.kind = "Rectangle" =>
        LET l == RectangleLabel(obj)
        IN  /\ (l # "_nolegend_" /\ l \notin legends_before)
                   => /\ DrawingAndPair(content, l)
                      /\ rectangle_legends = legends_before \cup {l}
            /\ l \in legends_before
                   => /\ OnlyDrawing(content)
                      /\ rectangle_legends = legends_before

\* C2 (amended): the same for a rectangle whose own label is not empty.
C2_LabelledRectangleLegendOnce ==
    (obj.kind = "Rectangle" /\ obj.label # "") =>
        LET l == recovered_label(obj)
        IN  /\ (l # "_nolegend_" /\ l \notin legends_before)
                   => /\ DrawingAndPair(content, l)
                      /\ rectangle_legends = legends_before \cup {l}
            /\ l \in legends_before
                   => /\ OnlyDrawing(content)
                      /\ rectangle_legends = legends_before
            /\ l = "_nolegend_"
                   => /\ OnlyDrawing(content)
                      /\ rectangle_legends = legends_before

\* C2 witness: a rectangle emitted the pair for a recovered label, and the
\* next rectangle with that label emitted its drawing alone.
C2_Witness ==
    /\ ncalls = 2
    /\ obj.kind = "Rectangle"
    /\ obj.label = "_nolegend_"
    /\ recovered_label(obj) = "A"
    /\ legends_before = {"A"}
    /\ OnlyDrawing(content)
    /\ Len(legend_log) = 1

\* C3 (as stated): a shape of any type contributes a legend pair if and
\* only if its label is among the texts of its axes' legend.
C3_LegendIffInLegend ==
    (obj.kind \in BoundKinds \cup {"Rectangle"} /\ ~raised) =>
        (LegendCount(content) > 0 <=> InLegend(obj))

\* C3 (amended): a shape other than a rectangle contributes exactly one
\* legend pair, for its own label, if its label is among the texts of its
\* axes' legend, and none otherwise, in particular none without a legend.
C3_BoundShapeLegendIffInLegend ==
    (obj.kind \in BoundKinds /\ ~raised) =>
        /\ LegendCount(content) = (IF InLegend(obj) THEN 1 ELSE 0)
        /\ \A i \in DOMAIN content :
               content[i].kind = "legend" => content[i].label = obj.label
        /\ ~obj.legend.exists => LegendCount(content) = 0

\* C3 witness: a polygon whose label is in the legend emitted its pair.
C3_Witness ==
    /\ obj.kind = "Polygon"
    /\ InLegend(obj)
    /\ LegendCount(content) = 1

\* how many members a returned text holds
MemberCount(fragments) ==
    Cardinality({i \in DOMAIN fragments : fragments[i].kind = "path"})

\* in every iteration that ran, every array contributed its element at
\* index i mod its own length, and an empty array None
WrapAroundPairing ==
    /\ \A i \in DOMAIN style_calls :
           /\ style_calls[i].ec = Wrapped(obj.edgecolor, i)
           /\ style_calls[i].fc = Wrapped(obj.facecolor, i)
           /\ style_calls[i].ls = Wrapped(obj.linestyle, i)
           /\ style_calls[i].lw = Wrapped(obj.linewidth, i)
    /\ \A i \in DOMAIN emitter_calls :
           /\ emitter_calls[i].path.path = Wrapped(obj.paths, i)
           /\ Wrapped(obj.transforms, i) # None
                  => /\ emitter_calls[i].path.affine = Wrapped(obj.transforms, i)
                     /\ emitter_calls[i].path.translate = Wrapped(obj.offsets, i)

\* C4 (as stated): the number of emitted members is the length of the
\* longest among paths, edge colors, face colors, line styles, line widths
\* and transforms, the offsets array not determining it; iteration i pairs
\* element i mod its own length of every array, and an empty array gives
\* None at every iteration instead of a length-zero iteration.
C4_MembersWithoutOffsets ==
    obj.kind = "Collection" =>
        /\ MemberCount(content) =
               Max({Len(obj.paths), AtLeastOne(obj.edgecolor),
                    AtLeastOne(obj.facecolor), AtLeastOne(obj.linestyle),
                    AtLeastOne(obj.linewidth), AtLeastOne(obj.transforms)})
        /\ WrapAroundPairing

\* C4 (amended): the loop runs over n tuples, n the length of the longest
\* among those arrays and the offsets array.  A collection with a
\* transform but without paths or without offsets raises in its first
\* iteration and emits no member; a collection without paths and without
\* transforms hands None to the path emitter and emits nothing if the
\* emitter raises; every other collection emits exactly n members.  Every
\* iteration that ran paired element i mod its own length of every array,
\* None for an empty one.
C4_MembersAndPairing ==
    obj.kind = "Collection" =>
        LET n == Max({Len(obj.paths), AtLeastOne(obj.edgecolor),
                      AtLeastOne(obj.facecolor), AtLeastOne(obj.linestyle),
                      AtLeastOne(obj.linewidth), AtLeastOne(obj.transforms),
                      Len(obj.offsets)})
            aborts == /\ Len(obj.transforms) > 0
                      /\ (Len(obj.paths) = 0 \/ Len(obj.offsets) = 0)
            none_path == Len(obj.paths) = 0 /\ Len(obj.transforms) = 0
        IN  /\ aborts =>
                   /\ raised
                   /\ content = <<>>
                   /\ emitter_calls = <<>>
                   /\ Len(style_calls) = 1
            /\ none_path =>
                   /\ emitter_calls[1].path = PathArg(None, None, None)
                   /\ raised <=> obj.rejects_none
                   /\ raised => (content = <<>> /\ Len(emitter_calls) = 1)
            /\ (~aborts /\ ~(none_path /\ obj.rejects_none)) =>
                   /\ ~raised
                   /\ MemberCount(content) = n
                   /\ Len(content) = n + 1
                   /\ Len(emitter_calls) = n
                   /\ Len(style_calls) = n
            /\ WrapAroundPairing

\* C4 witness: five paths and one edge color, two offsets, two transforms:
\* five members, all with that edge color.
C4_Witness ==
    /\ obj.kind = "Collection"
    /\ ~raised
    /\ Len(obj.paths) = 5
    /\ Len(obj.edgecolor) = 1
    /\ Len(obj.offsets) = 2
    /\ Len(obj.transforms) = 2
    /\ Len(emitter_calls) = 5
    /\ \A i \in 1..5 : style_calls[i].ec = obj.edgecolor[1]
    /\ emitter_calls[5].path.translate = obj.offsets[1]

\* C5: draw_patchcollection returns the member blocks in iteration order
\* followed by one legend block, whose legend type is "area legend" if the
\* last iteration's path was classified as area and "line legend" if not.
C5_OneLegendBlockOfLastVerdict ==
    (obj.kind = "Collection" /\ ~raised) =>
        LET n == Len(emitter_calls)
            legend_type == IF emitter_calls[n].is_area THEN "area legend"
                           ELSE "line legend"
        IN  /\ n >= 1
            /\ Len(content) = n + 1
            /\ \A i \in 1..n : content[i].kind = "path" /\ content[i].call = i
            /\ content[n + 1].kind \in {"legend", "blank"}
            /\ content[n + 1].kind = "legend" <=> InLegend(obj)
            /\ binder_calls = <<BinderCall(legend_type, obj.effective)>>
            /\ (content[n + 1].kind = "legend" /\ obj.effective # <<>>)
                   => content[n + 1].text =
                          "\\addlegendimage{" \o legend_type \o ", "
                              \o Join(", ", obj.effective)
                              \o "}\n\\addlegendentry{" \o obj.label \o "}\n\n"

\* C5 witness: the earlier members were classified as line and the last as
\* area, and the legend block says "area legend".
C5_Witness ==
    /\ obj.kind = "Collection"
    /\ ~raised
    /\ Len(emitter_calls) >= 3
    /\ ~emitter_calls[1].is_area
    /\ emitter_calls[Len(emitter_calls)].is_area
    /\ InLegend(obj)
    /\ obj.effective # <<>>
    /\ binder_calls[1].legend_type = "area legend"
    /\ content[Len(content)].kind = "legend"

\* C6: every legend block of the Legend Binder reads
\* \addlegendimage{<legend type>, <directives>} \addlegendentry{<label>}
\* and a blank line, for every draw-options list, the empty one included.
C6_LegendBlockFormat ==
    (obj.kind \in BoundKinds /\ ~raised) =>
        \A i \in DOMAIN content :
            content[i].kind = "legend" =>
                /\ Len(binder_calls) = 1
                /\ binder_calls[1].legend_type \in {"area legend", "line legend"}
                /\ content[i].text =
                       "\\addlegendimage{"
                           \o Join(", ", <<binder_calls[1].legend_type>>
                                             \o binder_calls[1].draw_options)
                           \o "}\n\\addlegendentry{" \o obj.label \o "}\n\n"

\* C7: a rectangle with an empty label returns empty output and leaves
\* data["rectangle_legends"] as it was.
C7_EmptyLabelRectangle ==
    (obj.kind = "Rectangle" /\ obj.label = "") =>
        /\ content = <<>>
        /\ rectangle_legends = legends_before
        /\ emitter_calls = <<>>
        /\ binder_calls = <<>>

\* C7 witness: an empty-label rectangle that is a child of a legend handle
\* was drawn on axes with a legend, with the set not empty.
C7_Witness ==
    /\ obj.kind = "Rectangle"
    /\ obj.label = ""
    /\ obj.legend.exists
    /\ labels_found(obj.handles) = <<"A">>
    /\ legends_before # {}
    /\ content = <<>>

\* C8: a member whose transform is unset gets its raw path, with no offset
\* applied; a member with a transform gets its path under that transform
\* composed with the translation by its offset.
C8_OffsetOnlyWithTransform ==
    obj.kind = "Collection" =>
        \A i \in DOMAIN emitter_calls :
            LET p == Wrapped(obj.paths, i)
                t == Wrapped(obj.transforms, i)
                off == Wrapped(obj.offsets, i)
            IN  /\ t = None => emitter_calls[i].path = PathArg(p, None, None)
                /\ t # None => emitter_calls[i].path = PathArg(p, t, off)
                /\ Len(obj.transforms) = 0 => emitter_calls[i].path.translate = None

\* C8 witness: no transforms, two offsets, three paths: three raw paths.
C8_Witness ==
    /\ obj.kind = "Collection"
    /\ ~raised
    /\ Len(obj.transforms) = 0
    /\ Len(obj.offsets) = 2
    /\ Len(obj.paths) = 3
    /\ Len(emitter_calls) = 3
    /\ \A i \in 1..3 : emitter_calls[i].path = PathArg(obj.paths[i], None, None)

\* C9: an arrow with an end point pair never reaches the path emitter and
\* is drawn as a straight line with the arrow style alone; an arrow without
\* one reaches it exactly once, with its original path and the base draw
\* options followed by the arrow style; either way the legend is then
\* attempted with "line legend".
C9_ArrowPathEmitter ==
    obj.kind = "FancyArrowPatch" =>
        /\ obj.posA_posB # None =>
               /\ emitter_calls = <<>>
               /\ content[1].kind = "draw"
               /\ content[1].text =
                      "\\draw[" \o Join(",", obj.arrow_style) \o "] (axis cs:"
                          \o Fmt(obj.posA_posB[1][1]) \o "," \o Fmt(obj.posA_posB[1][2])
                          \o ") -- (axis cs:" \o Fmt(obj.posA_posB[2][1]) \o ","
                          \o Fmt(obj.posA_posB[2][2]) \o ");\n"
        /\ obj.posA_posB = None =>
               /\ emitter_calls =
                      <<EmitterCall(PathArg(path_original(obj), None, None),
                                    obj.resolved \o obj.arrow_style, obj.is_area)>>
               /\ content[1] = Fragment("path", "", "", 1)
        /\ binder_calls = <<BinderCall("line legend", obj.resolved)>>
        /\ Len(content) = 1 + LegendCount(content)
        /\ LegendCount(content) <= 1

\* C9 witness: an arrow with end points, a style and a legend entry.
C9_Witness ==
    /\ obj.kind = "FancyArrowPatch"
    /\ obj.posA_posB # None
    /\ obj.arrow_style # <<>>
    /\ obj.resolved # <<>>
    /\ emitter_calls = <<>>
    /\ LegendCount(content) = 1

\* the \draw text of an ellipse under the given option list
EllipseText(o, options) ==
    "\\draw[" \o Join(",", options) \o "] (axis cs:" \o Fmt(o.geometry.x) \o ","
        \o Fmt(o.geometry.y) \o ") ellipse (" \o Fmt(o.geometry.w \div 2) \o " and "
        \o Fmt(o.geometry.h \div 2) \o ");\n"

\* C10 (as stated): an ellipse at angle 0 has its draw options unchanged;
\* at another angle it has one rotate around directive, before the draw
\* options.
C10_RotationBeforeOptions ==
    obj.kind = "Ellipse" =>
        LET rotation == rotate_around(obj.angle, obj.geometry.x, obj.geometry.y)
        IN  /\ obj.angle = 0 => content[1].text = EllipseText(obj, obj.resolved)
            /\ obj.angle # 0 =>
                   content[1].text = EllipseText(obj, <<rotation>> \o obj.resolved)

\* C10 (amended): at another angle it has one rotate around directive,
\* after the draw options.
C10_RotationAfterOptions ==
    obj.kind = "Ellipse" =>
        LET rotation == rotate_around(obj.angle, obj.geometry.x, obj.geometry.y)
        IN  /\ content[1].kind = "draw"
            /\ obj.angle = 0 =>
                   /\ content[1].text = EllipseText(obj, obj.resolved)
                   /\ binder_calls[1].draw_options = obj.resolved
            /\ obj.angle # 0 =>
                   /\ content[1].text = EllipseText(obj, obj.resolved \o <<rotation>>)
                   /\ binder_calls[1].draw_options = obj.resolved \o <<rotation>>
                   /\ \A k \in DOMAIN obj.resolved : obj.resolved[k] # rotation

\* C10 witness: an ellipse at -45 degrees with two draw options.
C10_Witness ==
    /\ obj.kind = "Ellipse"
    /\ obj.angle = -45
    /\ Len(obj.resolved) = 2
    /\ content[1].text =
           "\\draw[draw=red,fill=blue,rotate around={-45:(axis cs:-1,3)}] (axis cs:-1,3) ellipse (2 and 1);\n"

====
